---- MODULE Spec2Model ----
(***************************************************************************)
(* A model of make_synthetic_test (synthetic_data.py): the time-axis       *)
(* builder, the baseline synthesizer and the anomaly injector, run as one  *)
(* call after another on the same arguments.                               *)
(*                                                                         *)
(* Units.  Timestamps are integers, counted in ticks (the resolution of a  *)
(* timestamp; TicksPerSec of them make a second).  A float that holds      *)
(* seconds is an integer count of half ticks, so that the median of two    *)
(* tick differences is representable; pd.to_timedelta rounds such a value  *)
(* to whole ticks.  Cell values, thresholds and standard deviations are    *)
(* integers; a cell of the table is kept in tenths, so that the lift       *)
(* multipliers 1.2 .. 1.5 and 2.5 .. 4.0 are the integers 12 .. 15 and     *)
(* 25 .. 40.  Rows are indexed from 0, as in the source.                   *)
(***************************************************************************)
EXTENDS Integers, Sequences, FiniteSets, TLC

VARIABLES
    args,                 \* the arguments of make_synthetic_test
    call,                 \* 1 or 2: which invocation is running
    pc,                   \* the position inside the running invocation
    rng,                  \* the generator: its seed and how many draws it has made
    stream,               \* the draws of the seed's stream sampled so far
    sample_interval_sec,  \* local: the resolved interval (half ticks)
    n_rows,               \* local: the resolved row count
    times,                \* local: row -> timestamp (ticks)
    time_numeric,         \* local: row -> elapsed seconds (half ticks)
    res_std,              \* local: axis -> noise standard deviation
    data,                 \* local: axis -> row -> cell (tenths); df_test's axis columns
    axis_i,               \* the baseline loop's position in axes
    block_i,              \* the injection loop's round
    baseline,             \* history: data as it was when df_test was built
    blocks,               \* history: the (axis, start, end, lift, rows) of each round
    draws,                \* history: the kind of each draw of this invocation
    ret,                  \* the outcome of the running invocation
    first                 \* the outcome of invocation 1, kept for invocation 2

vars == <<args, call, pc, rng, stream, sample_interval_sec, n_rows, times,
          time_numeric, res_std, data, axis_i, block_i, baseline, blocks,
          draws, ret, first>>

-----------------------------------------------------------------------------
(* Bounds of the model *)

MaxRows == 3
MaxBlocks == 2
TicksPerSec == 2

(* Program constants *)

Tenths == 10
ForceLo == 12
ForceHi == 15
NoiseLo == 25
NoiseHi == 40
DefaultStd == 1
DefaultSeed == 42

OneSecond == 2 * TicksPerSec

-----------------------------------------------------------------------------
(* Arithmetic *)

Max2(a, b) == IF a >= b THEN a ELSE b

Min2(a, b) == IF a <= b THEN a ELSE b

Abs(a) == IF a < 0 THEN -a ELSE a

Range(s) == {s[i] : i \in DOMAIN s}

RECURSIVE SumSeq(_)
SumSeq(s) == IF Len(s) = 0 THEN 0 ELSE Head(s) + SumSeq(Tail(s))

\* Python's round(n / d) for d > 0: to the nearest integer, a tie to the even one.
RoundPos(n, d) ==
    LET q == (2 * n + d) \div (2 * d)
        tie == (2 * n + d) % (2 * d) = 0
    IN  IF tie /\ q % 2 # 0 THEN q - 1 ELSE q

\* Python's int(round(n / d)), d # 0.
RoundHalfEven(n, d) == IF d > 0 THEN RoundPos(n, d) ELSE RoundPos(-n, -d)

\* pd.to_timedelta(x, unit="s"): seconds (half ticks) to a duration in whole
\* ticks, the nearest one; a value midway between two is taken to the even one.
ToTimedelta(x) == RoundHalfEven(x, 2)

\* Timedelta.total_seconds(): a duration in ticks to seconds (half ticks).
TotalSeconds(d) == 2 * d

-----------------------------------------------------------------------------
(* The time axis *)

\* df_train['time'].diff().dt.total_seconds() without its undefined first entry.
Diffs(t) == [i \in 1..(Len(t) - 1) |-> TotalSeconds(t[i + 1] - t[i])]

\* The k-th smallest entry of a non-empty sequence.
Kth(s, k) ==
    CHOOSE v \in Range(s) :
        /\ Cardinality({i \in DOMAIN s : s[i] < v}) <= k - 1
        /\ Cardinality({i \in DOMAIN s : s[i] <= v}) >= k

\* np.nanmedian of the differences: nan when there is none, else the middle
\* entry or the mean of the two middle entries.
NanMedian(d) ==
    IF Len(d) = 0 THEN [kind |-> "nan", v |-> 0]
    ELSE IF Len(d) % 2 = 1
         THEN [kind |-> "num", v |-> Kth(d, (Len(d) + 1) \div 2)]
         ELSE [kind |-> "num",
               v |-> (Kth(d, Len(d) \div 2) + Kth(d, Len(d) \div 2 + 1)) \div 2]

\* Lines 53-57: the caller's value unless it is None or not finite; then the
\* median of the training differences, or 1.0 when that is nan or <= 0.
ResolvedInterval(arg, t) ==
    IF arg.kind = "num" THEN arg.v
    ELSE LET med == NanMedian(Diffs(t))
         IN  IF med.kind = "nan" \/ med.v <= 0 THEN OneSecond ELSE med.v

\* Lines 59-60.
ResolvedRows(arg, t) == IF arg.kind = "none" THEN Len(t) ELSE arg.v

\* df_train['time'].max()
TrainMax(t) == CHOOSE m \in Range(t) : \A x \in Range(t) : x <= m

\* Line 63.
StartTime(t, interval) == TrainMax(t) + ToTimedelta(interval)

\* Line 64.
TimesOf(t, interval, n) ==
    [i \in 0..(n - 1) |-> StartTime(t, interval) + ToTimedelta(i * interval)]

\* Lines 67-68.
TimeNumericOf(tm, n) == [i \in 0..(n - 1) |-> TotalSeconds(tm[i] - tm[0])]

-----------------------------------------------------------------------------
(* The baseline *)

\* np.std of a sample (population standard deviation); the samples of the
\* model have an integer one.
Std(s) ==
    LET n == Len(s)
        sq == [i \in DOMAIN s |-> s[i] * s[i]]
    IN  CHOOSE r \in 0..(1 + Max2(0, SumSeq(sq))) :
            r * r * n * n = n * SumSeq(sq) - SumSeq(s) * SumSeq(s)

\* Line 72's condition: a mapping is given and is not empty.
Truthy(dict) == dict.kind = "dict" /\ DOMAIN dict.d # {}

\* Line 72 raises KeyError when a non-empty mapping lacks an axis.
ResStdRaises(dict, axes) == Truthy(dict) /\ ~(Range(axes) \subseteq DOMAIN dict.d)

\* Line 72.
ResStdOf(dict, axes) ==
    IF Truthy(dict) THEN [a \in Range(axes) |-> Std(dict.d[a])]
    ELSE [a \in Range(axes) |-> DefaultStd]

\* models[axis].predict(X_test): a fitted line, in tenths.
Predict(model, tn, n) == [i \in 0..(n - 1) |-> Tenths * (model.coef * tn[i] + model.intercept)]

\* rng.normal(0.0, std, size=n) for the standard sample z of the draw.
StandardNormal(z, i) == ((z + i) % 3) - 1

Noise(z, std, n) == [i \in 0..(n - 1) |-> Tenths * std * StandardNormal(z, i)]

\* Line 79.
Drift(drift_per_sec, tn, n) == [i \in 0..(n - 1) |-> Tenths * drift_per_sec * tn[i]]

\* Line 80.
BaselineColumn(model, z, std, drift_per_sec, tn, n) ==
    [i \in 0..(n - 1) |->
        Predict(model, tn, n)[i] + Noise(z, std, n)[i] + Drift(drift_per_sec, tn, n)[i]]

-----------------------------------------------------------------------------
(* The generator.  A seed fixes a stream of draws; the model samples the     *)
(* stream as the first invocation draws from it, and a draw at a position    *)
(* already sampled returns the sampled value.                                *)

\* A generator kept across invocations instead of one made anew from the seed.
default_rng_shared(seed) == [seed |-> seed, pos |-> rng.pos]

\* Line 50: a fresh generator for the seed, at the start of its stream.
default_rng(seed) == [seed |-> seed, pos |-> 0]

\* The k-th next draw of the generator may return v.
MayDraw(k, v) == (rng.pos + k <= Len(stream)) => (v = stream[rng.pos + k])

\* The stream after the generator drew the values vs.
Sampled(vs) ==
    IF rng.pos + Len(vs) <= Len(stream) THEN stream
    ELSE SubSeq(stream, 1, rng.pos) \o vs

\* The values rng.normal may return: the standard samples of the model.
NormalGrid == {0, 1}

\* The values rng.uniform(lo, hi) may return: lo, and lo + k * step below hi.
UniformGrid(lo, hi, step) == {lo} \cup {v \in lo..(hi - 1) : (v - lo) % step = 0}

-----------------------------------------------------------------------------
(* The anomaly injector *)

\* Line 86: the durations rng.uniform(block_min_sec, block_max_sec) may return.
DurationGrid(lo, hi) == UniformGrid(lo, hi, OneSecond)

\* Line 87.
BlockLenRows(block_len_sec, interval) == Max2(1, RoundHalfEven(block_len_sec, interval))

\* A start index drawn over the whole table.
StartHighWholeTable(n, len) == Max2(1, n)

\* Line 88: the exclusive upper end of rng.integers(0, .).
StartHigh(n, len) == Max2(1, n - len)

\* An end index that is not clamped to the table.
EndIdxUnclamped(n, start_idx, len) == start_idx + len

\* Line 89.
EndIdx(n, start_idx, len) == Min2(n, start_idx + len)

\* Line 92.
AboveMode(force_above, MaxC) == force_above /\ MaxC.kind = "dict"

\* Line 94 raises KeyError when the mapping has no entry for the axis.
LiftRaises(force_above, MaxC, axis) == AboveMode(force_above, MaxC) /\ axis \notin DOMAIN MaxC.d

\* Lines 94 and 97: the multipliers rng.uniform may return, in tenths.
LiftGrid(force_above, MaxC) ==
    IF AboveMode(force_above, MaxC) THEN UniformGrid(ForceLo, ForceHi, 2)
    ELSE UniformGrid(NoiseLo, NoiseHi, 14)

\* Lines 92-97, in tenths.
LiftOf(force_above, MaxC, std, axis, m) ==
    IF AboveMode(force_above, MaxC) THEN Abs(MaxC.d[axis]) * m ELSE Abs(std[axis]) * m

\* Line 99: the rows of df_test.loc[lo:hi], a slice by label with both ends
\* included, over the row labels 0 .. n-1.
LocRows(lo, hi, n) == {r \in 0..(n - 1) : lo <= r /\ r <= hi}

\* A slice that takes end_idx as its last label.
LiftedRowsInclusive(start_idx, end_idx, n) == LocRows(start_idx, end_idx, n)

\* Line 99: the rows the round lifts.
LiftedRows(start_idx, end_idx, n) == LocRows(start_idx, end_idx - 1, n)

\* Line 99: += lift on those rows of one column.
AddLift(col, rows, lift) == [i \in DOMAIN col |-> IF i \in rows THEN col[i] + lift ELSE col[i]]

-----------------------------------------------------------------------------
(* Arguments *)

A1 == "axis1"
A2 == "axis2"

None == [kind |-> "none", v |-> 0]
NaN == [kind |-> "nan", v |-> 0]
Num(v) == [kind |-> "num", v |-> v]

NoDict == [kind |-> "none", d |-> <<>>]
Dict(d) == [kind |-> "dict", d |-> d]

Models == (A1 :> [coef |-> 0, intercept |-> 0]) @@ (A2 :> [coef |-> 1, intercept |-> -3])

Args(t, ax, n, iv, nb, bmin, bmax, drift, resid, force, maxc) ==
    [df_train |-> t, models |-> Models, axes |-> ax, n_rows |-> n,
     sample_interval_sec |-> iv, anomaly_blocks |-> nb, block_min_sec |-> bmin,
     block_max_sec |-> bmax, drift_per_sec |-> drift, seed |-> DefaultSeed,
     residuals_dict |-> resid, force_above |-> force, MaxC |-> maxc]

\* Training references: empty, one row, 0s 10s 20s, differences of 1 and 2
\* ticks, a repeated timestamp, a decreasing pair.
Trains ==
    {<<>>, <<0>>, <<0, 10 * TicksPerSec, 20 * TicksPerSec>>, <<0, 1, 3>>, <<5, 5>>, <<4, 0>>}

Regular == <<0, 10 * TicksPerSec, 20 * TicksPerSec>>

IntervalArgs == {None, NaN, Num(-OneSecond), Num(0), Num(3), Num(OneSecond)}

RowArgs == {None, Num(0), Num(1), Num(MaxRows)}

Residuals ==
    {NoDict, Dict(<<>>), Dict(A1 :> <<-1, 1>>),
     Dict((A1 :> <<-1, 1>>) @@ (A2 :> <<0, 4>>)),
     Dict((A1 :> <<2, 2>>) @@ (A2 :> <<0, 4>>))}

Thresholds ==
    {NoDict, Dict(<<>>), Dict(A1 :> 2),
     Dict((A1 :> 0) @@ (A2 :> 3)), Dict((A1 :> 1) @@ (A2 :> -2))}

\* The time axis: every training reference, interval and row count.  An empty
\* training reference has no maximum timestamp, so it comes with n_rows=None.
TimeAxisInputs ==
    {Args(t, <<A1>>, n, iv, nb, OneSecond, OneSecond, 0, NoDict, FALSE, NoDict) :
        t \in Trains, n \in RowArgs, iv \in IntervalArgs, nb \in 0..1}

\* One round over every table size, block length and interval.
GeometryInputs ==
    {Args(Regular, <<A1, A2>>, Num(n), iv, 1, d[1], d[2], drift, NoDict, TRUE,
          Dict((A1 :> 2) @@ (A2 :> -1))) :
        n \in 1..MaxRows, iv \in {Num(OneSecond), Num(3)},
        d \in {<<OneSecond, OneSecond>>, <<OneSecond, 4 * OneSecond>>,
               <<OneSecond \div 2, 3 * OneSecond + OneSecond \div 2>>},
        drift \in 0..1}

\* Several rounds, whose blocks may overlap.
AccumulationInputs ==
    {Args(Regular, <<A1, A2>>, Num(n), Num(OneSecond), nb, d[1], d[2], 0,
          Dict((A1 :> <<-1, 1>>) @@ (A2 :> <<0, 4>>)), FALSE, NoDict) :
        n \in {2, MaxRows}, nb \in 2..MaxBlocks,
        d \in {<<OneSecond, OneSecond>>, <<2 * OneSecond, 2 * OneSecond>>,
               <<OneSecond, 3 * OneSecond>>}}

\* Every residual mapping and threshold mapping, with and without force_above.
MappingInputs ==
    {Args(Regular, <<A1, A2>>, Num(2), Num(OneSecond), 1, OneSecond, OneSecond, 0,
          resid, force, maxc) :
        resid \in Residuals, force \in BOOLEAN, maxc \in Thresholds}

Inputs ==
    {a \in TimeAxisInputs : a.df_train = <<>> => a.n_rows.kind = "none"}
        \cup GeometryInputs \cup AccumulationInputs \cup MappingInputs

-----------------------------------------------------------------------------
(* The state machine *)

NoTable == [time |-> <<>>, time_numeric |-> <<>>, columns |-> <<>>]

Pending == [kind |-> "pending", err |-> "", line |-> 0, df |-> NoTable, interval |-> 0]

Init ==
    /\ args \in Inputs
    /\ call = 1
    /\ pc = "call"
    /\ rng = [seed |-> 0, pos |-> 0]
    /\ stream = <<>>
    /\ sample_interval_sec = 0
    /\ n_rows = 0
    /\ times = <<>>
    /\ time_numeric = <<>>
    /\ res_std = <<>>
    /\ data = <<>>
    /\ axis_i = 1
    /\ block_i = 0
    /\ baseline = <<>>
    /\ blocks = <<>>
    /\ draws = <<>>
    /\ ret = Pending
    /\ first = Pending

\* An exception raised at a line leaves the call: nothing is returned.
Raise(err, line) ==
    /\ pc' = "raised"
    /\ ret' = [kind |-> "raised", err |-> err, line |-> line, df |-> NoTable, interval |-> 0]

\* Line 50.
Enter ==
    /\ pc = "call"
    /\ rng' = default_rng(args.seed)
    /\ pc' = "interval"
    /\ UNCHANGED <<args, call, stream, sample_interval_sec, n_rows, times, time_numeric,
                   res_std, data, axis_i, block_i, baseline, blocks, draws, ret, first>>

\* Lines 53-57.
ResolveInterval ==
    /\ pc = "interval"
    /\ sample_interval_sec' = ResolvedInterval(args.sample_interval_sec, args.df_train)
    /\ pc' = "rows"
    /\ UNCHANGED <<args, call, rng, stream, n_rows, times, time_numeric, res_std, data,
                   axis_i, block_i, baseline, blocks, draws, ret, first>>

\* Lines 59-60.
DefaultRows ==
    /\ pc = "rows"
    /\ n_rows' = ResolvedRows(args.n_rows, args.df_train)
    /\ pc' = "times"
    /\ UNCHANGED <<args, call, rng, stream, sample_interval_sec, times, time_numeric,
                   res_std, data, axis_i, block_i, baseline, blocks, draws, ret, first>>

\* Lines 63-69.  times[0] of an empty list raises IndexError.
BuildTimes ==
    /\ pc = "times"
    /\ IF n_rows = 0
       THEN /\ Raise("IndexError", 67)
            /\ UNCHANGED <<times, time_numeric>>
       ELSE /\ times' = TimesOf(args.df_train, sample_interval_sec, n_rows)
            /\ time_numeric' = TimeNumericOf(times', n_rows)
            /\ pc' = "res_std"
            /\ UNCHANGED ret
    /\ UNCHANGED <<args, call, rng, stream, sample_interval_sec, n_rows, res_std, data,
                   axis_i, block_i, baseline, blocks, draws, first>>

\* Line 72.
ResidualStd ==
    /\ pc = "res_std"
    /\ IF ResStdRaises(args.residuals_dict, args.axes)
       THEN /\ Raise("KeyError", 72)
            /\ UNCHANGED res_std
       ELSE /\ res_std' = ResStdOf(args.residuals_dict, args.axes)
            /\ pc' = "baseline"
            /\ UNCHANGED ret
    /\ UNCHANGED <<args, call, rng, stream, sample_interval_sec, n_rows, times,
                   time_numeric, data, axis_i, block_i, baseline, blocks, draws, first>>

\* Lines 76-80, one axis.
BaselineAxis ==
    /\ pc = "baseline"
    /\ axis_i <= Len(args.axes)
    /\ \E z \in NormalGrid :
        /\ MayDraw(1, z)
        /\ stream' = Sampled(<<z>>)
        /\ data' = data @@ (args.axes[axis_i] :>
                        BaselineColumn(args.models[args.axes[axis_i]], z,
                                       res_std[args.axes[axis_i]], args.drift_per_sec,
                                       time_numeric, n_rows))
    /\ rng' = [rng EXCEPT !.pos = @ + 1]
    /\ draws' = Append(draws, "normal")
    /\ axis_i' = axis_i + 1
    /\ UNCHANGED <<args, call, pc, sample_interval_sec, n_rows, times, time_numeric,
                   res_std, block_i, baseline, blocks, ret, first>>

\* Line 82.
MakeFrame ==
    /\ pc = "baseline"
    /\ axis_i > Len(args.axes)
    /\ baseline' = data
    /\ pc' = "inject"
    /\ UNCHANGED <<args, call, rng, stream, sample_interval_sec, n_rows, times,
                   time_numeric, res_std, data, axis_i, block_i, blocks, draws, ret, first>>

\* Lines 85-99, one round.  Line 87 divides by the interval and raises when
\* it is 0 (ZeroDivisionError for a Python number); line 94 looks the axis up
\* in MaxC.
InjectBlock ==
    /\ pc = "inject"
    /\ block_i < args.anomaly_blocks
    /\ \E d \in DurationGrid(args.block_min_sec, args.block_max_sec) :
        /\ MayDraw(1, d)
        /\ IF sample_interval_sec = 0
           THEN /\ Raise("ZeroDivisionError", 87)
                /\ stream' = Sampled(<<d>>)
                /\ rng' = [rng EXCEPT !.pos = @ + 1]
                /\ draws' = Append(draws, "duration")
                /\ UNCHANGED <<data, blocks, block_i>>
           ELSE LET len == BlockLenRows(d, sample_interval_sec)
                IN  \E s \in 0..(StartHigh(n_rows, len) - 1), a \in 1..Len(args.axes) :
                      /\ MayDraw(2, s)
                      /\ MayDraw(3, a)
                      /\ IF LiftRaises(args.force_above, args.MaxC, args.axes[a])
                         THEN /\ Raise("KeyError", 94)
                              /\ stream' = Sampled(<<d, s, a>>)
                              /\ rng' = [rng EXCEPT !.pos = @ + 3]
                              /\ draws' = draws \o <<"duration", "start", "axis">>
                              /\ UNCHANGED <<data, blocks, block_i>>
                         ELSE \E m \in LiftGrid(args.force_above, args.MaxC) :
                                LET axis == args.axes[a]
                                    end_idx == EndIdx(n_rows, s, len)
                                    lift == LiftOf(args.force_above, args.MaxC, res_std, axis, m)
                                    rows == LiftedRows(s, end_idx, n_rows)
                                IN  /\ MayDraw(4, m)
                                    /\ stream' = Sampled(<<d, s, a, m>>)
                                    /\ rng' = [rng EXCEPT !.pos = @ + 4]
                                    /\ draws' = draws \o <<"duration", "start", "axis", "lift">>
                                    /\ data' = [data EXCEPT ![axis] = AddLift(@, rows, lift)]
                                    /\ blocks' = Append(blocks,
                                          [axis |-> axis, duration |-> d, len |-> len, start |-> s,
                                           end |-> end_idx, lift |-> lift, rows |-> rows])
                                    /\ block_i' = block_i + 1
                                    /\ UNCHANGED <<pc, ret>>
    /\ UNCHANGED <<args, call, sample_interval_sec, n_rows, times, time_numeric, res_std,
                   axis_i, baseline, first>>

\* Line 101.
Return ==
    /\ pc = "inject"
    /\ block_i >= args.anomaly_blocks
    /\ ret' = [kind |-> "returned", err |-> "", line |-> 101,
               df |-> [time |-> times, time_numeric |-> time_numeric, columns |-> data],
               interval |-> sample_interval_sec]
    /\ pc' = "done"
    /\ UNCHANGED <<args, call, rng, stream, sample_interval_sec, n_rows, times,
                   time_numeric, res_std, data, axis_i, block_i, baseline, blocks, draws, first>>

\* The caller invokes make_synthetic_test again with the same arguments.
Reinvoke ==
    /\ pc \in {"done", "raised"}
    /\ call = 1
    /\ call' = 2
    /\ first' = ret
    /\ ret' = Pending
    /\ pc' = "call"
    /\ sample_interval_sec' = 0
    /\ n_rows' = 0
    /\ times' = <<>>
    /\ time_numeric' = <<>>
    /\ res_std' = <<>>
    /\ data' = <<>>
    /\ axis_i' = 1
    /\ block_i' = 0
    /\ baseline' = <<>>
    /\ blocks' = <<>>
    /\ draws' = <<>>
    /\ UNCHANGED <<args, rng, stream>>

Next ==
    \/ Enter
    \/ ResolveInterval
    \/ DefaultRows
    \/ BuildTimes
    \/ ResidualStd
    \/ BaselineAxis
    \/ MakeFrame
    \/ InjectBlock
    \/ Return
    \/ Reinvoke

Spec == Init /\ [][Next]_vars

-----------------------------------------------------------------------------
(* Properties *)

Rows == 0..(n_rows - 1)

AxisSet == Range(args.axes)

\* The locals n_rows and sample_interval_sec hold their resolved values.
Resolved == pc \notin {"call", "interval", "rows"}

Returned == ret.kind = "returned"

\* The position of an axis in the axis list.
AxisIndex(a) == CHOOSE k \in DOMAIN args.axes : args.axes[k] = a

\* The sum of the lifts of the blocks of bs on axis a whose range holds row r.
RECURSIVE LiftSum(_, _, _)
LiftSum(bs, a, r) ==
    IF Len(bs) = 0 THEN 0
    ELSE (IF Head(bs).axis = a /\ Head(bs).start <= r /\ r < Head(bs).end
          THEN Head(bs).lift ELSE 0) + LiftSum(Tail(bs), a, r)

\* C1: a call whose row count resolves to 0 (n_rows=0, or n_rows=None with an
\* empty training reference) does not raise, runs no injection round that
\* changes anything, and returns a table with zero rows.
C1_ZeroRowsEmptyTable ==
    (Resolved /\ n_rows = 0) =>
        /\ ret.kind # "raised"
        /\ blocks = <<>>
        /\ (Returned => DOMAIN ret.df.time = {})

\* The interval the three-step policy of the claim resolves to.
PolicyInterval ==
    LET arg == args.sample_interval_sec
        med == NanMedian(Diffs(args.df_train))
    IN  IF arg.kind = "num" /\ arg.v > 0 THEN arg.v
        ELSE IF med.kind = "num" /\ med.v > 0 THEN med.v
        ELSE OneSecond

\* C2: the returned interval is the caller's value when that is finite and
\* positive, else the median of the training differences when that is finite
\* and positive, else 1.0; so it is strictly positive.
C2_IntervalPolicy ==
    Returned => (ret.interval = PolicyInterval /\ ret.interval > 0)

\* C3: a returned table has n_rows rows (len(df_train) by default), time[i] =
\* max(train.time) + (i+1) * interval, strictly increasing from after the last
\* training timestamp, and time_numeric[i] = i * interval.
C3_TimeAxis ==
    Returned =>
        LET n == IF args.n_rows.kind = "none" THEN Len(args.df_train) ELSE args.n_rows.v
            t == ret.df.time
            tn == ret.df.time_numeric
        IN  /\ DOMAIN t = 0..(n - 1)
            /\ DOMAIN tn = 0..(n - 1)
            /\ \A a \in AxisSet : DOMAIN ret.df.columns[a] = 0..(n - 1)
            /\ \A i \in 0..(n - 1) :
                /\ TotalSeconds(t[i] - TrainMax(args.df_train)) = (i + 1) * ret.interval
                /\ t[i] > TrainMax(args.df_train)
                /\ tn[i] = i * ret.interval
            /\ \A i \in 0..(n - 2) :
                /\ t[i] < t[i + 1]
                /\ TotalSeconds(t[i + 1] - t[i]) = ret.interval

\* MaxC has an entry for every axis.
CompleteMaxC == args.MaxC.kind = "dict" /\ AxisSet \subseteq DOMAIN args.MaxC.d

\* C4: with force_above and a complete MaxC, in the returned table every row
\* of every block is above MaxC[axis] on the block's axis, and every lift is
\* strictly positive.
C4_ForcedAbove ==
    (Returned /\ args.force_above /\ CompleteMaxC) =>
        \A k \in DOMAIN blocks :
            /\ blocks[k].lift > 0
            /\ \A r \in blocks[k].rows :
                ret.df.columns[blocks[k].axis][r] > Tenths * args.MaxC.d[blocks[k].axis]

\* C5: with force_above, no round lifts an axis for which no upper threshold
\* is given (MaxC lacks it, or MaxC is None): the call raises instead, and a
\* call that raises returns no table.
C5_MissingThresholdRaises ==
    /\ args.force_above =>
          \A k \in DOMAIN blocks :
              args.MaxC.kind = "dict" /\ blocks[k].axis \in DOMAIN args.MaxC.d
    /\ ret.kind = "raised" => ret.df = NoTable

\* The standard deviation the claim gives an axis: that of its residual
\* sample when there is one, else 1.0.
FallbackStd(a) ==
    IF args.residuals_dict.kind = "dict" /\ a \in DOMAIN args.residuals_dict.d
    THEN Std(args.residuals_dict.d[a]) ELSE DefaultStd

\* C7: the residual fallback is total: line 72 never raises, and every axis
\* gets the standard deviation of its residual sample, or 1.0 without one.
C7_ResidualFallbackTotal ==
    /\ ~(ret.kind = "raised" /\ ret.line = 72)
    /\ pc \in {"baseline", "inject", "done"} => \A a \in AxisSet : res_std[a] = FallbackStd(a)

\* The kind of the k-th draw of an invocation: one noise draw per axis, then
\* duration, start, axis, lift for each round.
ExpectedDraw(k) ==
    IF k <= Len(args.axes) THEN "normal"
    ELSE <<"duration", "start", "axis", "lift">>[((k - Len(args.axes) - 1) % 4) + 1]

\* C6: the second invocation with the same seed and arguments ends as the
\* first did, with an equal table and interval (or the same exception), and
\* the draws of an invocation come in the fixed order: a noise draw per axis in
\* axis-list order, then per round duration, start index, axis, lift multiplier.
C6_SameSeedSameOutput ==
    /\ (call = 2 /\ ret.kind # "pending") => ret = first
    /\ \A k \in DOMAIN draws : draws[k] = ExpectedDraw(k)
    /\ pc \in {"inject", "done"} =>
          Len(draws) = Len(args.axes) + 4 * Len(blocks)

C6_Witness ==
    /\ call = 2
    /\ Returned
    /\ Len(args.axes) = 2
    /\ Len(blocks) = 2
    /\ blocks[1].axis # blocks[2].axis
    /\ stream[1] # stream[2]

\* C8: every cell is its baseline value (prediction + noise + drift) plus the
\* lifts of the blocks on its axis whose range [start, end) holds its row; the
\* time columns are as built; without rounds the table is the baseline.
C8_FrameEffect ==
    pc \in {"inject", "done"} =>
        /\ \A a \in AxisSet : \A r \in Rows :
            /\ data[a][r] = baseline[a][r] + LiftSum(blocks, a, r)
            /\ baseline[a][r] =
                  Predict(args.models[a], time_numeric, n_rows)[r]
                  + Noise(stream[AxisIndex(a)], res_std[a], n_rows)[r]
                  + Drift(args.drift_per_sec, time_numeric, n_rows)[r]
        /\ times = TimesOf(args.df_train, sample_interval_sec, n_rows)
        /\ time_numeric = TimeNumericOf(times, n_rows)
        /\ Returned =>
            /\ ret.df = [time |-> times, time_numeric |-> time_numeric, columns |-> data]
            /\ (args.anomaly_blocks = 0 => ret.df.columns = baseline)

C8_Witness ==
    /\ Returned
    /\ Len(blocks) = 2
    /\ blocks[1].axis = blocks[2].axis
    /\ blocks[1].rows \cap blocks[2].rows # {}
    /\ blocks[1].rows # blocks[2].rows
    /\ blocks[1].lift > 0
    /\ \E r \in Rows : data[blocks[1].axis][r] = baseline[blocks[1].axis][r]
    /\ \E a \in AxisSet : data[a] = baseline[a]

\* C9: with n_rows >= 1 and a positive interval, every round has
\* block_len_rows = max(1, round(duration / interval)) >= 1, a start in
\* [0, max(1, n_rows - block_len_rows)), end = min(n_rows, start +
\* block_len_rows), and lifts the rows start .. end-1, a non-empty range
\* inside [0, n_rows).
C9_BlockInsideTable ==
    (Resolved /\ n_rows >= 1 /\ sample_interval_sec > 0) =>
        \A k \in DOMAIN blocks :
            LET b == blocks[k]
            IN  /\ b.len = Max2(1, RoundHalfEven(b.duration, sample_interval_sec))
                /\ b.len >= 1
                /\ 0 <= b.start
                /\ b.start < Max2(1, n_rows - b.len)
                /\ b.end = Min2(n_rows, b.start + b.len)
                /\ b.rows = b.start..(b.end - 1)
                /\ b.rows # {}
                /\ b.end <= n_rows
                /\ b.rows \subseteq Rows

C9_Witness ==
    /\ Returned
    /\ sample_interval_sec > 0
    /\ \E k \in DOMAIN blocks :
        /\ blocks[k].len > n_rows
        /\ blocks[k].end = n_rows
        /\ blocks[k].rows = Rows

\* C10: a block shorter than the table starts at most at n_rows -
\* block_len_rows - 1, is not truncated and does not lift the last row; a block
\* lifts the last row only when block_len_rows >= n_rows, and then it starts at
\* row 0 and covers every row.
C10_LastRowOnlyByWholeTable ==
    Resolved =>
        \A k \in DOMAIN blocks :
            LET b == blocks[k]
            IN  /\ b.len < n_rows =>
                    /\ b.start <= n_rows - b.len - 1
                    /\ b.end = b.start + b.len
                    /\ b.end <= n_rows - 1
                    /\ (n_rows - 1) \notin b.rows
                /\ (n_rows - 1) \in b.rows => b.len >= n_rows
                /\ b.len >= n_rows => (b.start = 0 /\ b.rows = Rows)

C10_Witness ==
    /\ Returned
    /\ \E k \in DOMAIN blocks :
        /\ blocks[k].len = 2
        /\ blocks[k].len < n_rows
        /\ blocks[k].start = n_rows - blocks[k].len - 1

====
